---- MODULE Spec2Model ----
(***************************************************************************)
(* A model of the F1 live-timing ingestion pipeline: the tailing reader    *)
(* (extractor.py, and the inline tail of main.py), the batch transformer   *)
(* (transformer.py), the load coordinator (loader.py, supabase_loader.py)  *)
(* and the polling loop with its shutdown sequence (main.py).              *)
(***************************************************************************)
EXTENDS Integers, Sequences, FiniteSets, TLC

VARIABLES
    \* ---- the raw event log and its readers
    file_exists,        \* os.path.exists(output_file)
    file,               \* the bytes of the log, a sequence of characters
    last_position,      \* F1DataExtractor.last_position
    new_lines,          \* what the last get_new_data() call returned
    delivered,          \* every element get_new_data() returned, in call order
    main_last_position, \* the local last_position of main()
    main_delivered,     \* every element the inline tail of main() read
    read_failed,        \* the last get_new_data() call read nothing: no file, or except
    \* ---- the relational store and the last load_batch call
    loader,             \* which loader class is in use
    pool,               \* self.pool is set: connect() has succeeded
    store,              \* the committed tables, each a sequence of rows
    called,             \* a load_batch call has returned, its record still held
    batch_data,         \* the batch_data argument of the last call
    fault,              \* the statement that failed in the last call, if any
    attempted,          \* the table handlers the last call invoked
    statements,         \* the executemany statements of the last call, in order
    raised,             \* the last call raised out of load_batch
    reloaded,           \* the last call loaded the batch of the call before it again
    \* ---- the transformer and the last process_data_batch call
    raw_lines,          \* the raw_lines argument of the last call
    result,             \* the dict the last call returned
    drivers_cache,      \* F1DataTransformer.drivers_cache: number -> team
    session_info,       \* F1DataTransformer.session_info
    batch_raised,       \* the last call raised out of process_data_batch
    transformed,        \* a process_data_batch call has returned
    \* ---- main() and the extraction task
    pc,                 \* where main() is suspended
    shutdown_requested, \* the global flag handle_shutdown sets
    extraction_task,    \* where the task running start_extraction is
    process,            \* the fastf1_livetiming child (extractor.process)
    stdout_ready,       \* the child has printed a line the task has not read
    pending,            \* the lines of new_lines the loop has still to process
    weather_data,       \* the log lines whose INSERT into weather_data succeeded
    final_report,       \* report_if_needed(force=True) has run
    initialized,        \* WeatherDataProcessor.initialized
    iteration_error,    \* the last pass of the loop ended in its except Exception
    heartbeat_counter   \* the local heartbeat_counter of main()

tailVars == <<file_exists, file, last_position, new_lines, delivered,
              main_last_position, main_delivered, read_failed>>

loadVars == <<loader, pool, store, called, batch_data, fault, attempted,
              statements, raised, reloaded>>

batchVars == <<raw_lines, result, drivers_cache, session_info, batch_raised,
               transformed>>

pipeVars == <<pc, shutdown_requested, extraction_task, process, stdout_ready,
              pending, weather_data, final_report, initialized, iteration_error,
              heartbeat_counter>>

vars == <<tailVars, loadVars, batchVars, pipeVars>>

\* what the actions of one part of the model leave alone
offTail == <<loadVars, batchVars, pipeVars>>
offLoad == <<tailVars, batchVars, pipeVars>>
offBatch == <<tailVars, loadVars, pipeVars>>
offPipe == <<last_position, new_lines, delivered, main_delivered, read_failed,
             loadVars, batchVars>>

(***************************************************************************)
(* Bounds of the model.                                                    *)
(***************************************************************************)
MaxFile == 4        \* the log is followed up to this many characters
MaxChunk == 2       \* the producer appends at most this many characters at once
MaxLapBatch == 2    \* a LapData batch holds at most this many records
MaxRows == 1        \* an append-only table is followed up to this many rows
MaxKeyed == 1       \* a batch holds at most this many Session or Driver records
MaxAppend == 3      \* a batch holds at most this many records of an append-only kind
BatchSize == 2      \* rows per executemany of car_telemetry (1000 in the source)
MaxRawLines == 3    \* process_data_batch is given at most this many lines
MaxEventLines == 2  \* and at most this many timing, car and session events
HeartbeatEvery == 2 \* passes of the loop between two heartbeats (300 in main.py)

(***************************************************************************)
(* Sequence helpers.                                                       *)
(***************************************************************************)
NL == "\n"
Chars == {"a", NL}

RECURSIVE SeqsUpTo(_, _)
SeqsUpTo(S, n) ==
    IF n = 0 THEN {<<>>}
    ELSE LET shorter == SeqsUpTo(S, n - 1)
         IN  shorter \cup {Append(s, x) : s \in shorter, x \in S}

\* the elements of a sequence
Range(seq) == {seq[i] : i \in 1..Len(seq)}

RECURSIVE Flatten(_)
Flatten(ss) ==
    IF ss = <<>> THEN <<>> ELSE Head(ss) \o Flatten(Tail(ss))

Last(s) == s[Len(s)]

(***************************************************************************)
(* The tailing reader.                                                     *)
(***************************************************************************)
\* the index of the first newline of s, or 0 when s holds none
FirstNL(s) ==
    IF \E i \in 1..Len(s) : s[i] = NL
    THEN CHOOSE i \in 1..Len(s) : s[i] = NL /\ \A j \in 1..(i - 1) : s[j] # NL
    ELSE 0

\* f.readlines() on the text s: the lines of s, each with its terminating
\* newline, and a last element without one when s does not end in a newline
RECURSIVE readlines(_)
readlines(s) ==
    IF s = <<>> THEN <<>>
    ELSE LET i == FirstNL(s)
         IN  IF i = 0 THEN <<s>>
             ELSE <<SubSeq(s, 1, i)>> \o readlines(SubSeq(s, i + 1, Len(s)))

\* a mutant of seek: the seek is forgotten and the file is read from byte 0
seek_Forgotten(f, pos) == f

\* f.seek(pos): what is left to read of f from byte offset pos
seek(f, pos) == SubSeq(f, pos + 1, Len(f))

\* a mutant of tell: an offset one past the end of the file is reported
tell_PastEnd(f) == Len(f) + 1

\* f.tell() once readlines() has read to the end of file
tell(f) == Len(f)

\* the external producer creates the (empty) log
ProducerCreate ==
    /\ ~file_exists
    /\ file_exists' = TRUE
    /\ UNCHANGED <<file, last_position, new_lines, delivered,
                   main_last_position, main_delivered>>
    /\ UNCHANGED read_failed
    /\ UNCHANGED offTail

\* the external producer appends a chunk, which may end in the middle of a line
ProducerAppend ==
    /\ file_exists
    /\ \E chunk \in SeqsUpTo(Chars, MaxChunk) :
          /\ chunk # <<>>
          /\ Len(file) + Len(chunk) <= MaxFile
          /\ file' = file \o chunk
    /\ UNCHANGED <<file_exists, last_position, new_lines, delivered,
                   main_last_position, main_delivered>>
    /\ UNCHANGED read_failed
    /\ UNCHANGED offTail

\* F1DataExtractor.get_new_data, the file missing
GetNewData_NoFile ==
    /\ ~file_exists
    /\ new_lines' = <<>>
    /\ read_failed' = TRUE
    /\ UNCHANGED <<file_exists, file, last_position, delivered,
                   main_last_position, main_delivered>>
    /\ UNCHANGED offTail

\* F1DataExtractor.get_new_data, the read succeeding
GetNewData_Read ==
    /\ file_exists
    /\ new_lines' = readlines(seek(file, last_position))
    /\ last_position' = tell(file)
    /\ delivered' = delivered \o new_lines'
    /\ read_failed' = FALSE
    /\ UNCHANGED <<file_exists, file, main_last_position, main_delivered>>
    /\ UNCHANGED offTail

\* a mutant of GetNewData_Error: the except branch rewinds the offset
GetNewData_Error_Rewinds ==
    /\ file_exists
    /\ new_lines' = <<>>
    /\ last_position' = 0
    /\ read_failed' = TRUE
    /\ UNCHANGED <<file_exists, file, delivered, main_last_position,
                   main_delivered>>
    /\ UNCHANGED offTail

\* F1DataExtractor.get_new_data, open() or the read raising: the except branch
GetNewData_Error ==
    /\ file_exists
    /\ new_lines' = <<>>
    /\ read_failed' = TRUE
    /\ UNCHANGED <<file_exists, file, last_position, delivered,
                   main_last_position, main_delivered>>
    /\ UNCHANGED offTail

get_new_data == GetNewData_NoFile \/ GetNewData_Read \/ GetNewData_Error

\* the inline tail of main(): read only when the file has grown
MainTail ==
    /\ file_exists
    /\ Len(file) > main_last_position
    /\ main_delivered' =
          main_delivered \o readlines(seek(file, main_last_position))
    /\ main_last_position' = tell(file)
    /\ UNCHANGED <<file_exists, file, last_position, new_lines, delivered>>
    /\ UNCHANGED read_failed
    /\ UNCHANGED offTail

(***************************************************************************)
(* The relational store.  A table is the sequence of its rows in insertion *)
(* order; the id and created_at columns, which no statement of the loaders *)
(* reads, are left out.  NULL is SQL NULL / Python None.                   *)
(***************************************************************************)
NULL == -1

COALESCE(a, b) == IF a # NULL THEN a ELSE b

Kinds == {"sessions", "drivers", "lap_data", "positions", "telemetry",
          "race_control", "weather"}

\* the order in which load_batch looks at the collections of batch_data
KindOrder == <<"sessions", "drivers", "lap_data", "positions", "telemetry",
               "race_control", "weather">>

\* the handlers that run one statement per row, each in its own try/except
RowKinds == {"sessions", "drivers", "lap_data"}

Loaders == {"PostgreSQLLoader", "SupabaseLoader"}

\* the collections load_batch hands to a table handler: SupabaseLoader only
\* logs that lap_data maps to no table
HandledKinds(ld) ==
    IF ld = "SupabaseLoader" THEN Kinds \ {"lap_data"} ELSE Kinds

EmptyStore == [k \in Kinds |-> <<>>]

\* the data columns of lap_data that ON CONFLICT merges with COALESCE
CoalescedCols == {"lap_time", "sector_1_time", "sector_2_time",
                  "sector_3_time", "speed_trap"}

LapCols == CoalescedCols \cup {"timestamp"}

SameLap(row, r) ==
    row.driver_number = r.driver_number /\ row.lap_number = r.lap_number

\* ON CONFLICT (driver_number, lap_number) DO UPDATE SET ... of _load_lap_data
merge_lap(row, r) ==
    [driver_number |-> row.driver_number,
     lap_number    |-> row.lap_number,
     lap_time      |-> COALESCE(r.lap_time, row.lap_time),
     sector_1_time |-> COALESCE(r.sector_1_time, row.sector_1_time),
     sector_2_time |-> COALESCE(r.sector_2_time, row.sector_2_time),
     sector_3_time |-> COALESCE(r.sector_3_time, row.sector_3_time),
     speed_trap    |-> COALESCE(r.speed_trap, row.speed_trap),
     timestamp     |-> r.timestamp]

\* a mutant of upsert_lap: a plain INSERT into a table without the UNIQUE key
upsert_lap_PlainInsert(tbl, r) == Append(tbl, r)

\* INSERT INTO lap_data ... ON CONFLICT ... DO UPDATE of _load_lap_data
upsert_lap(tbl, r) ==
    IF \E i \in 1..Len(tbl) : SameLap(tbl[i], r)
    THEN [i \in 1..Len(tbl) |->
             IF SameLap(tbl[i], r) THEN merge_lap(tbl[i], r) ELSE tbl[i]]
    ELSE Append(tbl, r)

\* an attribute the constructor of a model object was not given: Session and
\* Driver keep their extra keyword arguments as attributes, and the loaders
\* read them with getattr(obj, name, default)
Unset == -2

getattr(value, default) == IF value = Unset THEN default ELSE value

\* the default 'Unknown' of the type of a session, and the empty string
Unknown == -3
EmptyStr == -4

\* x or '' for a string or None
or_empty(value) == IF value = NULL THEN EmptyStr ELSE value

\* str(n): the text of a number, which is not the number
str(n) == <<"str", n>>

\* the VALUES of the INSERT INTO sessions of PostgreSQLLoader._load_sessions
session_values(r) ==
    [session_key  |-> r.session_key,
     meeting_key  |-> r.meeting_key,
     name         |-> r.name,
     date         |-> r.date,
     circuit      |-> r.circuit,
     type         |-> getattr(r.type, NULL),
     location     |-> getattr(r.location, NULL),
     country_name |-> getattr(r.country_name, NULL)]

\* INSERT INTO sessions ... ON CONFLICT (session_key) DO UPDATE SET every
\* non-key column = EXCLUDED: the row becomes the incoming values
upsert_session(tbl, r) ==
    LET v == session_values(r)
    IN  IF \E i \in 1..Len(tbl) : tbl[i].session_key = v.session_key
        THEN [i \in 1..Len(tbl) |->
                 IF tbl[i].session_key = v.session_key THEN v ELSE tbl[i]]
        ELSE Append(tbl, v)

\* the VALUES of the INSERT INTO public.sessions of SupabaseLoader
supabase_session_values(r) ==
    [key        |-> r.session_key,
     type       |-> getattr(r.type, Unknown),
     name       |-> r.name,
     start_date |-> r.date,
     race_id    |-> getattr(r.race_id, 1),
     end_date   |-> getattr(r.end_date, NULL),
     gmt_offset |-> getattr(r.gmt_offset, NULL),
     path       |-> getattr(r.path, NULL)]

\* INSERT INTO public.sessions ... ON CONFLICT (key) DO UPDATE SET type, name,
\* start_date, end_date: race_id, gmt_offset and path are not in the SET list
supabase_upsert_session(tbl, r) ==
    LET v == supabase_session_values(r)
    IN  IF \E i \in 1..Len(tbl) : tbl[i].key = v.key
        THEN [i \in 1..Len(tbl) |->
                 IF tbl[i].key = v.key
                 THEN [tbl[i] EXCEPT !.type = v.type, !.name = v.name,
                                     !.start_date = v.start_date,
                                     !.end_date = v.end_date]
                 ELSE tbl[i]]
        ELSE Append(tbl, v)

\* the VALUES of the INSERT INTO drivers of PostgreSQLLoader._load_drivers
driver_values(r) ==
    [driver_number  |-> r.driver_number,
     name           |-> r.name,
     team           |-> r.team,
     country_code   |-> r.country_code,
     team_color     |-> getattr(r.team_color, NULL),
     first_name     |-> getattr(r.first_name, NULL),
     last_name      |-> getattr(r.last_name, NULL),
     short_name     |-> getattr(r.short_name, NULL),
     headshot_url   |-> getattr(r.headshot_url, NULL),
     broadcast_name |-> getattr(r.broadcast_name, NULL)]

\* INSERT INTO drivers ... ON CONFLICT (driver_number) DO UPDATE SET every
\* non-key column = EXCLUDED
upsert_driver(tbl, r) ==
    LET v == driver_values(r)
    IN  IF \E i \in 1..Len(tbl) : tbl[i].driver_number = v.driver_number
        THEN [i \in 1..Len(tbl) |->
                 IF tbl[i].driver_number = v.driver_number THEN v ELSE tbl[i]]
        ELSE Append(tbl, v)

\* the VALUES of the INSERT INTO public.session_drivers of SupabaseLoader
supabase_driver_values(r) ==
    [session_id     |-> 1,
     driver_number  |-> str(r.driver_number),
     full_name      |-> or_empty(r.name),
     broadcast_name |-> getattr(r.broadcast_name, NULL),
     tla            |-> getattr(r.short_name, NULL),
     team_name      |-> r.team,
     team_color     |-> getattr(r.team_color, NULL),
     first_name     |-> getattr(r.first_name, NULL),
     last_name      |-> getattr(r.last_name, NULL),
     headshot_url   |-> getattr(r.headshot_url, NULL)]

\* INSERT INTO public.session_drivers ... ON CONFLICT (session_id,
\* driver_number) DO UPDATE SET every other column = EXCLUDED
supabase_upsert_driver(tbl, r) ==
    LET v == supabase_driver_values(r)
        same(row) == /\ row.session_id = v.session_id
                     /\ row.driver_number = v.driver_number
    IN  IF \E i \in 1..Len(tbl) : same(tbl[i])
        THEN [i \in 1..Len(tbl) |-> IF same(tbl[i]) THEN v ELSE tbl[i]]
        ELSE Append(tbl, v)

\* the statement a row handler of the loader ld runs for one record
upsert(ld, kind, tbl, r) ==
    CASE kind = "sessions" ->
             IF ld = "SupabaseLoader" THEN supabase_upsert_session(tbl, r)
             ELSE upsert_session(tbl, r)
      [] kind = "drivers" ->
             IF ld = "SupabaseLoader" THEN supabase_upsert_driver(tbl, r)
             ELSE upsert_driver(tbl, r)
      [] kind = "lap_data" -> upsert_lap(tbl, r)

(***************************************************************************)
(* load_batch.  One statement of a call may fail: fault is NoFault or      *)
(* <<kind, i, how>>, the statement for the i-th record of a row handler,   *)
(* or (i = 1) the executemany of an append handler.  how = "soft" is an    *)
(* error raised on the client (building the values, encoding an argument:  *)
(* the transaction stays usable), how = "hard" an error raised by the      *)
(* server, after which the transaction is aborted: every later statement   *)
(* in it raises, and its COMMIT rolls back.                                *)
(***************************************************************************)
NoFault == <<>>

FaultAt(f, kind, i) == f # NoFault /\ f[1] = kind /\ f[2] = i

\* a mutant of handler_catches: _load_positions without its try/except
handler_catches_NotPositions(kind) == kind # "positions"

\* except Exception as e: logger.error(...) in every table handler
handler_catches(kind) == TRUE

\* a mutant of in_transaction: the statements run outside a transaction
in_transaction_Autocommit == FALSE

\* async with conn.transaction() around all the handlers of load_batch
in_transaction == TRUE

\* the state of one call: the tables as the transaction sees them, whether the
\* transaction is aborted, the handlers invoked, an exception propagating
StartCall(st) ==
    [tbl |-> st, aborted |-> FALSE, attempted |-> {}, statements |-> <<>>,
     raised |-> FALSE]

\* one statement of a handler: ok == what the tables are when it succeeds
statement(kind, cs, f, i, ok) ==
    IF cs.raised THEN cs
    ELSE IF cs.aborted /\ in_transaction
    THEN [cs EXCEPT !.raised = ~handler_catches(kind)]
    ELSE IF FaultAt(f, kind, i)
    THEN [cs EXCEPT !.aborted = (f[3] = "hard"),
                    !.raised = ~handler_catches(kind)]
    ELSE [cs EXCEPT !.tbl = ok]

\* _load_sessions, _load_drivers, _load_lap_data: a loop over the records,
\* each statement in its own try/except
RECURSIVE load_rows(_, _, _, _, _, _)
load_rows(ld, kind, cs, recs, f, i) ==
    IF i > Len(recs) THEN cs
    ELSE load_rows(ld, kind,
                   statement(kind, cs, f, i,
                             [cs.tbl EXCEPT
                                 ![kind] = upsert(ld, kind, @, recs[i])]),
                   recs, f, i + 1)

\* a datetime: the instant it names and whether it carries a tzinfo
datetime(at, tzinfo) == [at |-> at, tzinfo |-> tzinfo]

\* ts.replace(tzinfo=None) if ts.tzinfo else ts
strip_tzinfo(ts) == IF ts.tzinfo THEN [ts EXCEPT !.tzinfo = FALSE] ELSE ts

\* float(x) if x else None: None and 0 are both false; the float of an
\* integer is the same number
float_if(x) == IF x = NULL \/ x = 0 THEN NULL ELSE x

\* the tuple an append handler of PostgreSQLLoader builds from a record
values_of(kind, r) ==
    CASE kind = "positions" ->
             [driver_number |-> r.driver_number, position |-> r.position,
              timestamp |-> r.timestamp]
      [] kind = "telemetry" ->
             [driver_number |-> r.driver_number, timestamp |-> r.timestamp,
              speed |-> r.speed, rpm |-> r.rpm, gear |-> r.gear,
              throttle |-> r.throttle, brake |-> r.brake, drs |-> r.drs,
              x |-> r.x, y |-> r.y, z |-> r.z]
      [] kind = "race_control" ->
             [timestamp |-> r.timestamp, message |-> r.message,
              category |-> r.category, flag |-> r.flag,
              driver_number |-> r.driver_number,
              scope |-> getattr(r.scope, NULL),
              sector |-> getattr(r.sector, NULL),
              lap_number |-> getattr(r.lap_number, NULL)]
      [] kind = "weather" ->
             [timestamp |-> r.timestamp, air_temp |-> r.air_temp,
              track_temp |-> r.track_temp, humidity |-> r.humidity,
              pressure |-> r.pressure, wind_speed |-> r.wind_speed,
              wind_direction |-> r.wind_direction, rainfall |-> r.rainfall]

\* the tuple an append handler of SupabaseLoader builds from a record, for
\* driver_positions, car_telemetry, race_control_messages and weather_data
supabase_values_of(kind, r) ==
    CASE kind = "positions" ->
             [session_id |-> 1, timestamp |-> strip_tzinfo(r.timestamp),
              driver_number |-> str(r.driver_number), position |-> r.position]
      [] kind = "telemetry" ->
             [timestamp |-> strip_tzinfo(r.timestamp),
              utc_timestamp |-> strip_tzinfo(r.timestamp),
              session_id |-> 1, driver_number |-> str(r.driver_number),
              rpm |-> r.rpm, speed |-> r.speed, gear |-> r.gear,
              throttle |-> float_if(r.throttle), brake |-> float_if(r.brake),
              drs |-> r.drs]
      [] kind = "race_control" ->
             [session_id |-> 1, timestamp |-> r.timestamp, utc_time |-> NULL,
              category |-> r.category, message |-> r.message, flag |-> r.flag,
              scope |-> getattr(r.scope, NULL),
              sector |-> getattr(r.sector, NULL)]
      [] kind = "weather" ->
             [session_id |-> NULL, timestamp |-> strip_tzinfo(r.timestamp),
              air_temp |-> r.air_temp, track_temp |-> r.track_temp,
              humidity |-> r.humidity, pressure |-> r.pressure,
              wind_speed |-> r.wind_speed,
              wind_direction |-> r.wind_direction, rainfall |-> r.rainfall]

\* values = [(...) for r in recs]
append_values(ld, kind, recs) ==
    [i \in 1..Len(recs) |->
        IF ld = "SupabaseLoader" THEN supabase_values_of(kind, recs[i])
        ELSE values_of(kind, recs[i])]

\* values[i:i+batch_size] for i in range(0, len(values), batch_size)
RECURSIVE slices(_, _)
slices(values, size) ==
    IF values = <<>> THEN <<>>
    ELSE IF Len(values) <= size THEN <<values>>
    ELSE <<SubSeq(values, 1, size)>>
         \o slices(SubSeq(values, size + 1, Len(values)), size)

\* the lists of rows an append handler hands to executemany, in order: only
\* SupabaseLoader._load_car_telemetry slices its values
executemany_args(ld, kind, values) ==
    IF ld = "SupabaseLoader" /\ kind = "telemetry"
    THEN slices(values, BatchSize)
    ELSE <<values>>

\* the executemany calls of an append handler from the j-th on, all in one
\* try/except: the first that fails ends the handler
RECURSIVE for_executemany(_, _, _, _, _)
for_executemany(kind, cs, args, f, j) ==
    IF j > Len(args) \/ cs.raised THEN cs
    ELSE LET sent == [cs EXCEPT !.statements =
                         Append(@, [kind |-> kind, rows |-> args[j]])]
             fails == (cs.aborted /\ in_transaction) \/ FaultAt(f, kind, j)
             next == statement(kind, sent, f, j,
                               [cs.tbl EXCEPT ![kind] = @ \o args[j]])
         IN  IF fails THEN next
             ELSE for_executemany(kind, next, args, f, j + 1)

\* _load_positions, _load_telemetry, _load_race_control, _load_weather of
\* either loader: the values, then executemany, in one try/except
load_append(ld, kind, cs, recs, f) ==
    for_executemany(kind, cs,
                    executemany_args(ld, kind, append_values(ld, kind, recs)),
                    f, 1)

\* the body of load_batch from the k-th collection on
RECURSIVE load_from(_, _, _, _, _)
load_from(ld, cs, batch, f, k) ==
    IF k > Len(KindOrder) THEN cs
    ELSE LET kind == KindOrder[k]
             recs == batch[kind]
             run  == ~cs.raised /\ recs # <<>> /\ kind \in HandledKinds(ld)
             seen == IF run THEN [cs EXCEPT !.attempted = @ \cup {kind}] ELSE cs
             next == IF ~run THEN cs
                     ELSE IF kind \in RowKinds
                     THEN load_rows(ld, kind, seen, recs, f, 1)
                     ELSE load_append(ld, kind, seen, recs, f)
         IN  load_from(ld, next, batch, f, k + 1)

\* leaving async with conn.transaction(): ROLLBACK when an exception
\* propagates, COMMIT otherwise, which rolls back an aborted transaction
commit(st, cs) ==
    IF in_transaction /\ (cs.raised \/ cs.aborted) THEN st ELSE cs.tbl

\* load_batch(batch_data) on the store st: the store, the handlers invoked and
\* whether the call raised
load_batch(ld, pl, st, batch, f) ==
    LET cs == load_from(ld, StartCall(st), batch, f, 1)
    IN  IF ~pl
        THEN [store |-> st, attempted |-> {}, statements |-> <<>>,
              raised |-> FALSE]
        ELSE [store |-> commit(st, cs), attempted |-> cs.attempted,
              statements |-> cs.statements, raised |-> cs.raised]

\* the lap_data cells (driver, lap, column) that hold a non-null value
NonNullCells(tbl) ==
    {<<tbl[p[1]].driver_number, tbl[p[1]].lap_number, p[2]>> :
        p \in {q \in (1..Len(tbl)) \X LapCols : tbl[q[1]][q[2]] # NULL}}

\* the kinds of a batch whose collection is not empty
NonEmptyKinds(batch) == {k \in Kinds : batch[k] # <<>>}

EmptyBatch == [k \in Kinds |-> <<>>]

\* a call load_batch(b) in which the statement f (if any) fails
LoadBatch(b, f) ==
    LET r == load_batch(loader, pool, store, b, f)
    IN  /\ store' = r.store
        /\ attempted' = r.attempted
        /\ statements' = r.statements
        /\ raised' = r.raised
        /\ called' = TRUE
        /\ batch_data' = b
        /\ fault' = f
        /\ reloaded' = called
        /\ UNCHANGED <<loader, pool>>

(***************************************************************************)
(* The records the model loads.                                            *)
(***************************************************************************)
LapRec(d, l, t, s, v, ts) ==
    [driver_number |-> d, lap_number |-> l, lap_time |-> t,
     sector_1_time |-> s, sector_2_time |-> s, sector_3_time |-> s,
     speed_trap |-> v, timestamp |-> ts]

\* LapData records of driver 44: for lap 12 a lap time, sector times with a
\* speed trap, and a timestamp, each of them possibly None; for lap 13 one
\* complete record
LapInputs ==
    {LapRec(44, 12, t, s, s, ts) :
        t \in {NULL, 1, 2}, s \in {NULL, 1}, ts \in {NULL, 1}}
    \cup {LapRec(44, 13, 2, 2, 2, 2)}

LapBatches ==
    {[EmptyBatch EXCEPT !["lap_data"] = recs] :
        recs \in SeqsUpTo(LapInputs, MaxLapBatch) \ {<<>>}}

\* Session(session_key, 1229, name, date, 'Silverstone', type=type,
\* location=..., country_name=...) as the transformer builds it, with the
\* keyword argument path=path when path is not Unset
SessionRec(key, name, type, path) ==
    [session_key |-> key, meeting_key |-> 1229, name |-> name, date |-> 1,
     circuit |-> 1, type |-> type, location |-> 1, country_name |-> 1,
     race_id |-> Unset, end_date |-> Unset, gmt_offset |-> Unset,
     path |-> path]

\* Driver(number, name, team, 'HAM', team_color=..., first_name=...,
\* last_name=..., short_name=..., broadcast_name=...) as the transformer
\* builds it, with headshot_url=url when url is not Unset
DriverRec(number, name, team, url) ==
    [driver_number |-> number, name |-> name, team |-> team,
     country_code |-> 1, team_color |-> 1, first_name |-> 1, last_name |-> 1,
     short_name |-> 1, headshot_url |-> url, broadcast_name |-> 1]

\* one record of each kind
OneRecord ==
    [sessions |-> SessionRec(9158, 1, 1, Unset),
     drivers |-> DriverRec(44, 1, 1, Unset),
     lap_data |-> LapRec(44, 12, 1, NULL, NULL, 1),
     positions |-> [driver_number |-> 44, position |-> 1,
                    timestamp |-> datetime(1, TRUE)],
     telemetry |-> [driver_number |-> 44, timestamp |-> datetime(1, TRUE),
                    speed |-> 310,
                    rpm |-> 11000, gear |-> NULL, throttle |-> NULL,
                    brake |-> NULL, drs |-> NULL, x |-> NULL, y |-> NULL,
                    z |-> NULL],
     race_control |-> [timestamp |-> datetime(1, TRUE), message |-> 1,
                       category |-> 1,
                       flag |-> 1, driver_number |-> NULL, scope |-> 1,
                       sector |-> NULL, lap_number |-> NULL],
     weather |-> [timestamp |-> datetime(1, TRUE), air_temp |-> 23,
                  track_temp |-> NULL,
                  humidity |-> NULL, pressure |-> NULL, wind_speed |-> NULL,
                  wind_direction |-> NULL, rainfall |-> 1]]

\* batches holding at most one record of each kind
MixedBatches ==
    {[k \in Kinds |-> IF k \in ks THEN <<OneRecord[k]>> ELSE <<>>] :
        ks \in SUBSET Kinds}

\* Session objects of key 9158 that differ in name and in the optional path,
\* and one of another key
SessionInputs ==
    {SessionRec(9158, n, 1, p) : n \in {1, 2}, p \in {Unset, 1, 2}}
    \cup {SessionRec(9159, 1, 1, Unset)}

\* Driver objects of number 44 that differ in name (possibly None) and in the
\* optional headshot_url, and one of another number
DriverInputs ==
    {DriverRec(44, n, 1, u) : n \in {NULL, 1}, u \in {Unset, 1}}
    \cup {DriverRec(1, 1, 1, Unset)}

\* batches holding Session and Driver records only
KeyedBatches ==
    {[EmptyBatch EXCEPT !["sessions"] = ss, !["drivers"] = ds] :
        ss \in SeqsUpTo(SessionInputs, MaxKeyed),
        ds \in SeqsUpTo(DriverInputs, MaxKeyed)} \ {EmptyBatch}

\* the kinds loaded by plain inserts
AppendKinds == Kinds \ RowKinds

\* TelemetryData of car 44 as _process_car_data builds it, the throttle
\* unknown, 0 or 50
TelemetryInputs ==
    {[OneRecord["telemetry"] EXCEPT !.gear = 7, !.throttle = th, !.brake = 0] :
        th \in {NULL, 0, 50}}

\* Position and RaceControl records with the zone-aware timestamp of the feed
\* or the naive datetime.now() of _parse_timestamp; one Weather record
AppendInputs ==
    [positions |-> {[OneRecord["positions"] EXCEPT !.timestamp = datetime(1, tz)] :
                       tz \in BOOLEAN},
     telemetry |-> TelemetryInputs,
     race_control |-> {[OneRecord["race_control"] EXCEPT
                           !.timestamp = datetime(1, tz)] : tz \in BOOLEAN},
     weather |-> {OneRecord["weather"]}]

\* batches holding records of one append-only kind
AppendBatches ==
    UNION {{[EmptyBatch EXCEPT ![kind] = recs] :
               recs \in SeqsUpTo(AppendInputs[kind], MaxAppend) \ {<<>>}} :
           kind \in AppendKinds}

\* the statements of a call that can fail, each softly or hard
Faults(ld, b) ==
    {NoFault} \cup
    {<<k, i, how>> : k \in NonEmptyKinds(b) \cap HandledKinds(ld),
                     i \in {1}, how \in {"soft", "hard"}}

\* load_batch on a batch of several kinds, one statement possibly failing;
\* the append-only tables are followed up to MaxRows rows
LoadMixedBatch ==
    /\ ~called
    /\ \E b \in MixedBatches :
          /\ \A k \in Kinds \ RowKinds : Len(store[k]) + Len(b[k]) <= MaxRows
          /\ \E f \in (IF pool THEN Faults(loader, b) ELSE {NoFault}) :
                LoadBatch(b, f)
    /\ UNCHANGED offLoad

\* load_batch on a batch holding LapData only, no statement failing
LoadLapBatch ==
    /\ ~called
    /\ \E b \in LapBatches : LoadBatch(b, NoFault)
    /\ UNCHANGED offLoad

\* load_batch on a batch of Session and Driver records, no statement failing
LoadKeyedBatch ==
    /\ ~called
    /\ \E b \in KeyedBatches : LoadBatch(b, NoFault)
    /\ UNCHANGED offLoad

\* the first load_batch into the append-only tables, no statement failing
LoadAppendBatch ==
    /\ ~called
    /\ \A kind \in AppendKinds : store[kind] = <<>>
    /\ \E b \in AppendBatches : LoadBatch(b, NoFault)
    /\ UNCHANGED offLoad

\* the caller loads the batch it has just loaded once more
LoadAgain ==
    /\ called
    /\ ~reloaded
    /\ LoadBatch(batch_data, NoFault)
    /\ UNCHANGED offLoad

\* the caller drops the batch and goes on to its next iteration
LoadReturn ==
    /\ called
    /\ called' = FALSE
    /\ batch_data' = EmptyBatch
    /\ fault' = NoFault
    /\ attempted' = {}
    /\ statements' = <<>>
    /\ raised' = FALSE
    /\ reloaded' = FALSE
    /\ UNCHANGED <<loader, pool, store>>
    /\ UNCHANGED offLoad

\* connect(): the pool is created
connect ==
    /\ ~pool
    /\ ~called
    /\ pool' = TRUE
    /\ UNCHANGED <<loader, store, called, batch_data, fault, attempted,
                   statements, raised, reloaded>>
    /\ UNCHANGED offLoad

(***************************************************************************)
(* The batch transformer (transformer.py).  A raw line is given by what    *)
(* json.loads makes of it: kind "blank" is a line of white space only,     *)
(* "malformed" a line json.loads rejects with JSONDecodeError, "scalar" a  *)
(* JSON number, "object" a JSON object with its topic and data members,     *)
(* "list" a JSON array [topic, data, timestamp].                           *)
(* Strings of the input stay strings; "" is the empty string.  A member of  *)
(* a payload is given by its text; Absent says that the payload has no     *)
(* such member, NotDict that the member is a JSON string or null where the *)
(* handler expects an object with a 'Value'.  A handler that sets the      *)
(* three sectors alike is modelled for sector 1.                           *)
(***************************************************************************)
NoTopic == "absent"     \* the object has no 'topic' member
Absent == "<absent>"
NotDict == "<not a dict>"
IsoZ == "2024-05-01T12:00:00Z"

\* int(s) for the strings of the model: NULL stands for ValueError
int(s) ==
    CASE s = "44"   -> 44
      [] s = "1"    -> 1
      [] s = "9158" -> 9158
      [] s = "12"   -> 12
      [] s = "3"    -> 3
      [] s = "310"  -> 310
      [] OTHER      -> NULL

\* int(d.get(name, 0)): 0 for a member that is absent
int_or_0(value) == IF value = Absent THEN 0 ELSE int(value)

\* _parse_timestamp: the zone-aware datetime of an ISO string, and
\* datetime.now(), which is naive, for '' and for a string that does not parse
parse_timestamp(timestamp_str) ==
    IF timestamp_str = IsoZ THEN datetime(1, TRUE) ELSE datetime(2, FALSE)

\* _parse_lap_time: seconds from '90.5' or 'M:SS.mmm', None for anything else
parse_lap_time(time_str) ==
    CASE time_str = "90"       -> 90
      [] time_str = "1:30.000" -> 90
      [] time_str = "31"       -> 31
      [] OTHER                 -> NULL

\* _parse_float: None for None and '', None when float() raises
parse_float(value) ==
    CASE value = ""   -> NULL
      [] value = "23" -> 23
      [] OTHER        -> NULL

\* what a handler leaves behind: the result, the caches, and the exception
\* that leaves the handler, if any
Outcome(acc, exc) == [acc |-> acc, exc |-> exc]

\* the loop of _process_driver_list over data['data'].items() from entry i
\* on; a key int() rejects is caught inside the loop, a driver_data that is
\* not a dict raises AttributeError out of the handler
RECURSIVE for_driver_in(_, _, _)
for_driver_in(entries, i, acc) ==
    IF i > Len(entries) THEN Outcome(acc, "none")
    ELSE LET driver_number == int(entries[i].key)
             driver == [driver_number |-> driver_number,
                        team |-> entries[i].TeamName]
         IN  IF driver_number = NULL
             THEN for_driver_in(entries, i + 1, acc)
             ELSE IF ~entries[i].is_dict
             THEN Outcome(acc, "Exception")
             ELSE for_driver_in(entries, i + 1,
                      [acc EXCEPT !.result["drivers"] = Append(@, driver),
                                  !.drivers_cache =
                                      [n \in DOMAIN @ \cup {driver_number} |->
                                          IF n = driver_number
                                          THEN driver.team ELSE @[n]]])

\* LapData(driver_number, lap_number, lap_time=lap_time, timestamp=timestamp)
LapData(driver_number, lap_number, lap_time, timestamp) ==
    [driver_number |-> driver_number, lap_number |-> lap_number,
     lap_time |-> lap_time, sector_1_time |-> NULL, sector_2_time |-> NULL,
     sector_3_time |-> NULL, speed_trap |-> NULL, timestamp |-> timestamp]

\* the sector and speed members of a TimingData entry or of a lap_info, set
\* on lap_data when they are present; a speed int() rejects is passed over
with_sector_and_speed(lap_data, sector, speed) ==
    LET s1 == IF sector = Absent THEN lap_data
              ELSE [lap_data EXCEPT !.sector_1_time = parse_lap_time(sector)]
    IN  IF speed = Absent \/ int(speed) = NULL THEN s1
        ELSE [s1 EXCEPT !.speed_trap = int(speed)]

\* the loop of _process_timing_data over data['data'].items() from entry i
\* on.  Inside the try of an entry ValueError and TypeError are caught: a key
\* or a NumberOfLaps int() rejects, an entry that is null.  A LastLapTime,
\* sector or BestSpeed that is not a dict raises AttributeError out of the
\* handler, to the except Exception of the line.
RECURSIVE for_timing_in(_, _, _, _)
for_timing_in(entries, i, timestamp, acc) ==
    IF i > Len(entries) THEN Outcome(acc, "none")
    ELSE LET e == entries[i]
             driver_number == int(e.key)
             has_lap == e.LastLapTime # Absent
             lap_number == int_or_0(e.NumberOfLaps)
             lap_data == with_sector_and_speed(
                             LapData(driver_number, lap_number,
                                     parse_lap_time(e.LastLapTime), timestamp),
                             e.Sector1Time, e.BestSpeed)
             with_lap == IF has_lap
                         THEN [acc EXCEPT !.result["lap_data"] =
                                              Append(@, lap_data)]
                         ELSE acc
             pos_data == [driver_number |-> driver_number,
                          position |-> int(e.Position),
                          timestamp |-> timestamp]
             with_pos == IF e.Position # Absent /\ int(e.Position) # NULL
                         THEN [with_lap EXCEPT !.result["positions"] =
                                                  Append(@, pos_data)]
                         ELSE with_lap
         IN  IF driver_number = NULL \/ ~e.is_dict
             THEN for_timing_in(entries, i + 1, timestamp, acc)
             ELSE IF has_lap /\ e.LastLapTime = NotDict
             THEN Outcome(acc, "Exception")
             ELSE IF has_lap /\ lap_number = NULL
             THEN for_timing_in(entries, i + 1, timestamp, acc)
             ELSE IF has_lap /\ NotDict \in {e.Sector1Time, e.BestSpeed}
             THEN Outcome(acc, "Exception")
             ELSE for_timing_in(entries, i + 1, timestamp, with_pos)

\* _process_timing_data
process_timing_data(data, acc) ==
    IF ~data.has_data THEN Outcome(acc, "none")
    ELSE for_timing_in(data.data.items, 1, parse_timestamp(data.timestamp), acc)

\* a mutant of existing_laps: the search finds nothing
existing_laps_Empty(lap_data, driver_number, lap_number) == {}

\* existing_laps: the records of result['lap_data'] with this driver and lap
existing_laps(lap_data, driver_number, lap_number) ==
    {k \in 1..Len(lap_data) :
        /\ lap_data[k].driver_number = driver_number
        /\ lap_data[k].lap_number = lap_number}

\* the loop over app_data['Lines'].values() from lap_info j on: the first
\* existing record of the key, or a new one appended, then its sector and
\* speed set in place.  ValueError (a NumberOfLaps int() rejects) ends the
\* entry; a Sector or SpeedTrap that is not a dict raises AttributeError.
RECURSIVE for_lap_info_in(_, _, _, _, _)
for_lap_info_in(lines, j, driver_number, timestamp, acc) ==
    IF j > Len(lines) THEN Outcome(acc, "none")
    ELSE LET lap_info == lines[j]
             lap_number == int_or_0(lap_info.NumberOfLaps)
             laps == acc.result["lap_data"]
             found == existing_laps(laps, driver_number, lap_number)
             k == IF found # {}
                  THEN CHOOSE m \in found : \A n \in found : m <= n
                  ELSE Len(laps) + 1
             held == IF found # {} THEN laps
                     ELSE Append(laps, LapData(driver_number, lap_number,
                                               NULL, timestamp))
             set(sector, speed) ==
                 [held EXCEPT ![k] = with_sector_and_speed(@, sector, speed)]
         IN  IF lap_number = NULL THEN Outcome(acc, "ValueError")
             ELSE IF lap_info.Sector1 = NotDict
             THEN Outcome([acc EXCEPT !.result["lap_data"] = held],
                          "Exception")
             ELSE IF lap_info.SpeedTrap = NotDict
             THEN Outcome([acc EXCEPT !.result["lap_data"] =
                                          set(lap_info.Sector1, Absent)],
                          "Exception")
             ELSE for_lap_info_in(lines, j + 1, driver_number, timestamp,
                      [acc EXCEPT !.result["lap_data"] =
                                      set(lap_info.Sector1, lap_info.SpeedTrap)])

\* the loop of _process_timing_app_data over data['data'].items() from entry
\* i on: ValueError and TypeError are caught for each entry
RECURSIVE for_app_in(_, _, _, _)
for_app_in(entries, i, timestamp, acc) ==
    IF i > Len(entries) THEN Outcome(acc, "none")
    ELSE LET e == entries[i]
             driver_number == int(e.key)
             out == for_lap_info_in(e.Lines, 1, driver_number, timestamp, acc)
         IN  IF driver_number = NULL \/ ~e.is_dict
             THEN for_app_in(entries, i + 1, timestamp, acc)
             ELSE IF out.exc = "Exception" THEN out
             ELSE for_app_in(entries, i + 1, timestamp, out.acc)

\* _process_timing_app_data
process_timing_app_data(data, acc) ==
    IF ~data.has_data THEN Outcome(acc, "none")
    ELSE for_app_in(data.data.items, 1, parse_timestamp(data.timestamp), acc)

\* the loop of _process_car_data over data['data'].items() from entry i on:
\* an entry that is not a dict is passed over; a channel int() rejects raises
\* ValueError, caught for the entry, before the record is appended
RECURSIVE for_car_in(_, _, _, _)
for_car_in(entries, i, timestamp, acc) ==
    IF i > Len(entries) THEN Outcome(acc, "none")
    ELSE LET e == entries[i]
             driver_number == int(e.key)
             channel(value) == IF value = Absent THEN NULL ELSE int(value)
             rejected(value) == value # Absent /\ int(value) = NULL
             telemetry == [driver_number |-> driver_number,
                           timestamp |-> timestamp,
                           speed |-> channel(e.Speed), rpm |-> channel(e.RPM),
                           gear |-> channel(e.nGear),
                           throttle |-> channel(e.Throttle),
                           brake |-> channel(e.Brake), drs |-> channel(e.DRS),
                           x |-> NULL, y |-> NULL, z |-> NULL]
         IN  IF \/ driver_number = NULL
                \/ ~e.is_dict
                \/ \E v \in {e.Speed, e.RPM, e.nGear, e.Throttle, e.Brake,
                              e.DRS} : rejected(v)
             THEN for_car_in(entries, i + 1, timestamp, acc)
             ELSE for_car_in(entries, i + 1, timestamp,
                      [acc EXCEPT !.result["telemetry"] = Append(@, telemetry)])

\* _process_car_data
process_car_data(data, acc) ==
    IF ~data.has_data THEN Outcome(acc, "none")
    ELSE for_car_in(data.data.items, 1, parse_timestamp(data.timestamp), acc)

\* _process_driver_list
process_driver_list(data, acc) ==
    IF ~data.has_data THEN Outcome(acc, "none")
    ELSE for_driver_in(data.data.items, 1, acc)

\* _process_session_info: everything after the 'data' test is in one
\* try/except Exception
process_session_info(data, acc) ==
    IF ~data.has_data THEN Outcome(acc, "none")
    ELSE IF int_or_0(data.data.Key) = NULL THEN Outcome(acc, "none")
    ELSE LET session == [session_key |-> int_or_0(data.data.Key),
                         name |-> IF data.data.Name = Absent THEN ""
                                  ELSE data.data.Name]
         IN  Outcome([acc EXCEPT !.result["sessions"] = Append(@, session),
                                 !.session_info = session], "none")

\* s.lower() for the strings of the model
lower(s) ==
    CASE s = "True"  -> "true"
      [] s = "False" -> "false"
      [] OTHER       -> s

\* _process_weather_data
transform_weather_data(data, acc) ==
    IF ~data.has_data THEN Outcome(acc, "none")
    ELSE LET weather == [air_temp |-> parse_float(data.data.AirTemp),
                         rainfall |-> (lower(data.data.Rainfall) = "true")]
         IN  Outcome([acc EXCEPT !.result["weather"] = Append(@, weather)],
                     "none")

\* the body of the try of process_data_batch for one line; for a list,
\* 'topic' in data tests the elements of the list and no handler is called
process_line(line, acc) ==
    CASE line.kind = "blank"     -> Outcome(acc, "none")
      [] line.kind = "malformed" -> Outcome(acc, "JSONDecodeError")
      [] line.kind = "scalar"    -> Outcome(acc, "Exception")
      [] line.kind = "list"      -> Outcome(acc, "none")
      [] line.kind = "object" ->
            CASE line.topic = "DriverList" ->
                    process_driver_list(line, acc)
              [] line.topic = "SessionInfo" ->
                    process_session_info(line, acc)
              [] line.topic = "TimingData" ->
                    process_timing_data(line, acc)
              [] line.topic = "TimingAppData" ->
                    process_timing_app_data(line, acc)
              [] line.topic = "CarData.z" ->
                    process_car_data(line, acc)
              [] line.topic = "WeatherData" ->
                    transform_weather_data(line, acc)
              [] OTHER -> Outcome(acc, "none")

\* a mutant of line_catches: no except clause for json.JSONDecodeError
line_catches_NotJSONDecodeError(exc) == exc # "JSONDecodeError"

\* except json.JSONDecodeError / except Exception around each line
line_catches(exc) == exc \in {"JSONDecodeError", "Exception"}

\* for line in raw_lines: try ... except, from line i on
RECURSIVE for_line_in(_, _, _)
for_line_in(raw, i, acc) ==
    IF i > Len(raw) \/ acc.raised THEN acc
    ELSE LET out == process_line(raw[i], acc)
         IN  for_line_in(raw, i + 1,
                 IF out.exc = "none" \/ line_catches(out.exc)
                 THEN out.acc
                 ELSE [out.acc EXCEPT !.raised = TRUE])

\* _deduplicate_by_attr from item i on: an item is appended when its
\* attribute value has not been seen
RECURSIVE deduplicate_by_attr(_, _, _, _, _)
deduplicate_by_attr(items, attr_name, i, seen, unique_items) ==
    IF i > Len(items) THEN unique_items
    ELSE IF items[i][attr_name] \notin seen
    THEN deduplicate_by_attr(items, attr_name, i + 1,
                             seen \cup {items[i][attr_name]},
                             Append(unique_items, items[i]))
    ELSE deduplicate_by_attr(items, attr_name, i + 1, seen, unique_items)

EmptyResult == [k \in Kinds |-> <<>>]

\* return {} of process_data_batch
EmptyDict == [k \in {} |-> <<>>]

\* the dict process_data_batch starts from, with the caches of the transformer
StartAcc(cache, info) ==
    [result |-> EmptyResult, drivers_cache |-> cache, session_info |-> info,
     raised |-> FALSE]

\* the two deduplications at the end of process_data_batch
deduplicated(res) ==
    [res EXCEPT
        !["drivers"] = deduplicate_by_attr(@, "driver_number", 1, {}, <<>>),
        !["sessions"] = deduplicate_by_attr(@, "session_key", 1, {}, <<>>)]

\* process_data_batch(raw_lines) with the caches cache and info
process_data_batch(raw, cache, info) ==
    LET acc == for_line_in(raw, 1, StartAcc(cache, info))
    IN  IF raw = <<>>
        THEN [StartAcc(cache, info) EXCEPT !.result = EmptyDict]
        ELSE IF acc.raised THEN acc
        ELSE [acc EXCEPT !.result = deduplicated(@)]

DriverEntry(key, team) == [key |-> key, is_dict |-> TRUE, TeamName |-> team]

\* "44": null
NullEntry(key) == [key |-> key, is_dict |-> FALSE, TeamName |-> ""]

DriverListLine(entries) ==
    [kind |-> "object", topic |-> "DriverList", has_data |-> TRUE,
     data |-> [items |-> entries]]

SessionInfoLine(key, name) ==
    [kind |-> "object", topic |-> "SessionInfo", has_data |-> TRUE,
     data |-> [Key |-> key, Name |-> name]]

\* the raw lines the model feeds to the transformer
RawLines ==
    {[kind |-> "blank"], [kind |-> "malformed"], [kind |-> "scalar"],
     [kind |-> "object", topic |-> NoTopic, has_data |-> FALSE],
     [kind |-> "object", topic |-> "WeatherData", has_data |-> TRUE,
      data |-> [AirTemp |-> "23", Rainfall |-> "true"]],
     [kind |-> "object", topic |-> "WeatherData", has_data |-> TRUE,
      data |-> [AirTemp |-> "", Rainfall |-> "False"]],
     [kind |-> "list", topic |-> "WeatherData", has_data |-> TRUE,
      data |-> [AirTemp |-> "23", Rainfall |-> "true"]],
     DriverListLine(<<DriverEntry("44", "Mercedes")>>),
     DriverListLine(<<DriverEntry("44", "Ferrari")>>),
     DriverListLine(<<DriverEntry("x", "Ferrari"),
                      DriverEntry("1", "Red Bull")>>),
     DriverListLine(<<DriverEntry("1", "Red Bull"), NullEntry("44")>>),
     SessionInfoLine("9158", "Race"), SessionInfoLine("9158", "Sprint"),
     SessionInfoLine("x", "Race")}

\* an entry of a TimingData event: "key": {"LastLapTime": {"Value": ..},
\* "NumberOfLaps": .., "Position": ..}
TimingEntry(key, lap_time, laps, position) ==
    [key |-> key, is_dict |-> TRUE, LastLapTime |-> lap_time,
     NumberOfLaps |-> laps, Sector1Time |-> Absent, BestSpeed |-> Absent,
     Position |-> position]

TimingDataLine(entries) ==
    [kind |-> "object", topic |-> "TimingData", has_data |-> TRUE,
     timestamp |-> IsoZ, data |-> [items |-> entries]]

\* a lap_info of 'Lines'
LapInfo(laps, sector, speed) ==
    [NumberOfLaps |-> laps, Sector1 |-> sector, SpeedTrap |-> speed]

\* an entry of a TimingAppData event: "key": {"Lines": {..}}
AppEntry(key, lines) == [key |-> key, is_dict |-> TRUE, Lines |-> lines]

TimingAppDataLine(entries) ==
    [kind |-> "object", topic |-> "TimingAppData", has_data |-> TRUE,
     timestamp |-> IsoZ, data |-> [items |-> entries]]

\* an entry of a CarData.z event: "key": {"Speed": .., "Throttle": ..}
CarEntry(key, speed, throttle) ==
    [key |-> key, is_dict |-> TRUE, Speed |-> speed, RPM |-> Absent,
     nGear |-> Absent, Throttle |-> throttle, Brake |-> Absent,
     DRS |-> Absent]

CarDataLine(entries) ==
    [kind |-> "object", topic |-> "CarData.z", has_data |-> TRUE,
     timestamp |-> IsoZ, data |-> [items |-> entries]]

\* the timing, car and session events the model feeds to the transformer
EventLines ==
    {TimingDataLine(<<TimingEntry("44", "1:30.000", "12", "3")>>),
     TimingDataLine(<<TimingEntry("44", "1:30.000", "12", Absent)>>),
     TimingDataLine(<<TimingEntry("44", "1:30.000", Absent, "3")>>),
     TimingDataLine(<<TimingEntry("44", "1:30.000", "x", "3")>>),
     TimingDataLine(<<TimingEntry("44", "1:30.000", "12", "x")>>),
     TimingDataLine(<<TimingEntry("44", Absent, Absent, "3"),
                      TimingEntry("1", "90", "12", "1")>>),
     TimingDataLine(<<TimingEntry("44", NotDict, "12", "3"),
                      TimingEntry("1", "90", "12", "1")>>),
     TimingAppDataLine(<<AppEntry("44", <<LapInfo("12", "31", "310")>>)>>),
     TimingAppDataLine(<<AppEntry("44", <<LapInfo("12", Absent, "310"),
                                         LapInfo("12", "31", Absent)>>)>>),
     TimingAppDataLine(<<AppEntry("44", <<LapInfo("x", "31", "310")>>),
                         AppEntry("1", <<LapInfo(Absent, "31", "x")>>)>>),
     CarDataLine(<<CarEntry("44", "310", "12")>>),
     CarDataLine(<<CarEntry("44", "310", Absent)>>),
     CarDataLine(<<CarEntry("44", "x", "12"), CarEntry("1", "310", "12")>>),
     DriverListLine(<<NullEntry("44"), DriverEntry("1", "Red Bull")>>),
     SessionInfoLine("9158", "Race"), SessionInfoLine(Absent, Absent),
     SessionInfoLine("x", "Race")}

\* process_data_batch on a batch of timing, car and session events
ProcessEventBatch ==
    /\ ~transformed
    /\ \E raw \in SeqsUpTo(EventLines, MaxEventLines) :
          LET acc == process_data_batch(raw, drivers_cache, session_info)
          IN  /\ raw_lines' = raw
              /\ result' = acc.result
              /\ drivers_cache' = acc.drivers_cache
              /\ session_info' = acc.session_info
              /\ batch_raised' = acc.raised
              /\ transformed' = TRUE
    /\ UNCHANGED offBatch

\* process_data_batch on a batch of raw lines
ProcessDataBatch ==
    /\ ~transformed
    /\ \E raw \in SeqsUpTo(RawLines, MaxRawLines) :
          LET acc == process_data_batch(raw, drivers_cache, session_info)
          IN  /\ raw_lines' = raw
              /\ result' = acc.result
              /\ drivers_cache' = acc.drivers_cache
              /\ session_info' = acc.session_info
              /\ batch_raised' = acc.raised
              /\ transformed' = TRUE
    /\ UNCHANGED offBatch

\* the caller is done with the batch and goes on to its next iteration
TransformReturn ==
    /\ transformed
    /\ transformed' = FALSE
    /\ raw_lines' = <<>>
    /\ result' = EmptyDict
    /\ batch_raised' = FALSE
    /\ UNCHANGED <<drivers_cache, session_info>>
    /\ UNCHANGED offBatch

BatchIdle ==
    /\ raw_lines = <<>>
    /\ result = EmptyDict
    /\ drivers_cache = <<>>
    /\ session_info = NULL
    /\ batch_raised = FALSE
    /\ transformed = FALSE

(***************************************************************************)
(* The polling loop of main() and the extraction task (main.py,            *)
(* extractor.py).  Both are coroutines of one event loop: a coroutine runs *)
(* from one await to the next without interruption, and nothing else runs  *)
(* while a coroutine is inside a blocking call.  pc is the await at which  *)
(* main() is suspended, "loop_top" being the test of the while loop.  The  *)
(* fastf1_livetiming child process writes the log; in this part of the     *)
(* model a line of the log is "a\n", a WeatherData event, which the child  *)
(* may write in two pieces.  Counters that are only logged are left out.   *)
(***************************************************************************)
AwaitPcs == {"process", "sleep", "wait_task", "close"}

\* the event loop is free: the extraction task is not inside readline()
LoopFree == extraction_task # "in_readline"

\* ast.literal_eval(line) for the lines of the model: the text of a whole
\* line, with or without its newline, evaluates; anything else raises
literal_eval(line) ==
    IF line \in {<<"a">>, <<"a", NL>>} THEN "WeatherData" ELSE "SyntaxError"

\* the number of the log line that starts at offset pos
LineAt(pos) == Cardinality({i \in 1..pos : file[i] = NL}) + 1

\* the elements readlines() returns from offset pos, each with its line number
RECURSIVE Numbered(_, _)
Numbered(elems, pos) ==
    IF elems = <<>> THEN <<>>
    ELSE <<[text |-> Head(elems), line |-> LineAt(pos)]>>
         \o Numbered(Tail(elems), pos + Len(Head(elems)))

\* the elements the loop passes over without an await: those literal_eval
\* rejects
RECURSIVE SkipRejected(_)
SkipRejected(elems) ==
    IF elems = <<>> THEN <<>>
    ELSE IF literal_eval(Head(elems).text) = "WeatherData" THEN elems
    ELSE SkipRejected(Tail(elems))

\* heartbeat_counter += 1, and the heartbeat line with the reset to 0 when the
\* counter has reached its limit
heartbeat(counter) ==
    IF counter + 1 >= HeartbeatEvery THEN 0 ELSE counter + 1

\* handle_shutdown: SIGINT or SIGTERM sets the flag, whatever is running
handle_shutdown ==
    /\ pc # "stopped"
    /\ ~shutdown_requested
    /\ shutdown_requested' = TRUE
    /\ UNCHANGED <<pc, extraction_task, process, stdout_ready, pending,
                   weather_data, final_report>>
    /\ UNCHANGED <<file_exists, file, main_last_position>>
    /\ UNCHANGED <<initialized, iteration_error, heartbeat_counter>>
    /\ UNCHANGED offPipe

\* await weather_processor.initialize() returns; the extraction task is
\* created
InitializeOk ==
    /\ pc = "initialize"
    /\ initialized' = TRUE
    /\ pc' = "loop_top"
    /\ extraction_task' = "created"
    /\ heartbeat_counter' = 0
    /\ UNCHANGED <<shutdown_requested, process, stdout_ready, pending,
                   weather_data, final_report, iteration_error>>
    /\ UNCHANGED <<file_exists, file, main_last_position>>
    /\ UNCHANGED offPipe

\* a mutant of InitializeFails: the failure of connect() is swallowed and
\* main() goes on to create the extraction task
InitializeFails_Continues ==
    /\ pc = "initialize"
    /\ pc' = "loop_top"
    /\ extraction_task' = "created"
    /\ UNCHANGED <<shutdown_requested, process, stdout_ready, pending,
                   weather_data, final_report>>
    /\ UNCHANGED <<file_exists, file, main_last_position>>
    /\ UNCHANGED <<initialized, iteration_error, heartbeat_counter>>
    /\ UNCHANGED offPipe

\* await weather_processor.initialize() raises: connect() has failed,
\* initialize() logs and raises again, and the outer except of main() ends it
InitializeFails ==
    /\ pc = "initialize"
    /\ pc' = "stopped"
    /\ UNCHANGED <<shutdown_requested, extraction_task, process, stdout_ready,
                   pending, weather_data, final_report>>
    /\ UNCHANGED <<file_exists, file, main_last_position>>
    /\ UNCHANGED <<initialized, iteration_error, heartbeat_counter>>
    /\ UNCHANGED offPipe

\* one pass of the while loop up to its first await: the inline tail, then
\* process_weather_data for the first line that evaluates, or sleep(1)
Iterate ==
    /\ pc = "loop_top"
    /\ ~shutdown_requested
    /\ IF file_exists /\ Len(file) > main_last_position
       THEN /\ pending' = SkipRejected(
                              Numbered(readlines(seek(file, main_last_position)),
                                       main_last_position))
            /\ main_last_position' = tell(file)
            /\ pc' = IF pending' = <<>> THEN "sleep" ELSE "process"
       ELSE /\ pc' = "sleep"
            /\ UNCHANGED <<pending, main_last_position>>
    /\ heartbeat_counter' =
          IF pc' = "sleep" THEN heartbeat(heartbeat_counter) ELSE heartbeat_counter
    /\ iteration_error' = FALSE
    /\ UNCHANGED <<shutdown_requested, extraction_task, process, stdout_ready,
                   weather_data, final_report, initialized>>
    /\ UNCHANGED <<file_exists, file>>
    /\ UNCHANGED offPipe

\* a mutant of IterateFails: the exception leaves the loop and ends main()
IterateFails_Fatal ==
    /\ pc = "loop_top"
    /\ ~shutdown_requested
    /\ file_exists
    /\ iteration_error' = TRUE
    /\ pc' = "stopped"
    /\ UNCHANGED <<shutdown_requested, extraction_task, process, stdout_ready,
                   pending, weather_data, final_report, initialized,
                   heartbeat_counter>>
    /\ UNCHANGED <<file_exists, file, main_last_position>>
    /\ UNCHANGED offPipe

\* getsize() or open() raises: except Exception of the loop, then sleep(1)
IterateFails ==
    /\ pc = "loop_top"
    /\ ~shutdown_requested
    /\ file_exists
    /\ iteration_error' = TRUE
    /\ pc' = "sleep"
    /\ UNCHANGED <<shutdown_requested, extraction_task, process, stdout_ready,
                   pending, weather_data, final_report, initialized,
                   heartbeat_counter>>
    /\ UNCHANGED <<file_exists, file, main_last_position>>
    /\ UNCHANGED offPipe

\* await weather_processor.process_weather_data(data_dict) returns: its
\* INSERT has succeeded (inserted), or has raised and been caught there; the
\* loop goes on to the next line that evaluates, or to sleep(1)
ProcessLine ==
    /\ pc = "process"
    /\ LoopFree
    /\ \E inserted \in BOOLEAN :
          weather_data' =
              IF inserted THEN Append(weather_data, Head(pending).line)
              ELSE weather_data
    /\ pending' = SkipRejected(Tail(pending))
    /\ pc' = IF pending' = <<>> THEN "sleep" ELSE "process"
    /\ heartbeat_counter' =
          IF pc' = "sleep" THEN heartbeat(heartbeat_counter) ELSE heartbeat_counter
    /\ UNCHANGED <<shutdown_requested, extraction_task, process, stdout_ready,
                   final_report, initialized, iteration_error>>
    /\ UNCHANGED <<file_exists, file, main_last_position>>
    /\ UNCHANGED offPipe

\* await asyncio.sleep(1) returns
Sleep ==
    /\ pc = "sleep"
    /\ LoopFree
    /\ pc' = "loop_top"
    /\ UNCHANGED <<shutdown_requested, extraction_task, process, stdout_ready,
                   pending, weather_data, final_report>>
    /\ UNCHANGED <<file_exists, file, main_last_position>>
    /\ UNCHANGED <<initialized, iteration_error, heartbeat_counter>>
    /\ UNCHANGED offPipe

\* the loop ends: extractor.stop_extraction() terminates (and, after the
\* grace period, kills) a live child, then main() awaits the task
stop_extraction ==
    /\ pc = "loop_top"
    /\ shutdown_requested
    /\ process' = IF process = "running" THEN "killed" ELSE process
    /\ pc' = "wait_task"
    /\ UNCHANGED <<shutdown_requested, extraction_task, stdout_ready, pending,
                   weather_data, final_report>>
    /\ UNCHANGED <<file_exists, file, main_last_position>>
    /\ UNCHANGED <<initialized, iteration_error, heartbeat_counter>>
    /\ UNCHANGED offPipe

\* await asyncio.wait_for(extraction_task, 10) returns or raises: the task
\* has ended
WaitTaskDone ==
    /\ pc = "wait_task"
    /\ LoopFree
    /\ extraction_task \in {"done", "failed"}
    /\ pc' = "close"
    /\ UNCHANGED <<shutdown_requested, extraction_task, process, stdout_ready,
                   pending, weather_data, final_report>>
    /\ UNCHANGED <<file_exists, file, main_last_position>>
    /\ UNCHANGED <<initialized, iteration_error, heartbeat_counter>>
    /\ UNCHANGED offPipe

\* asyncio.TimeoutError: the task, still watching a live child, is cancelled
\* at its await
WaitTaskTimeout ==
    /\ pc = "wait_task"
    /\ extraction_task = "sleeping"
    /\ process = "running"
    /\ extraction_task' = "cancelled"
    /\ pc' = "close"
    /\ UNCHANGED <<shutdown_requested, process, stdout_ready, pending,
                   weather_data, final_report>>
    /\ UNCHANGED <<file_exists, file, main_last_position>>
    /\ UNCHANGED <<initialized, iteration_error, heartbeat_counter>>
    /\ UNCHANGED offPipe

\* await weather_processor.close() returns: the final report, then the end
CloseOk ==
    /\ pc = "close"
    /\ LoopFree
    /\ final_report' = TRUE
    /\ pc' = "stopped"
    /\ UNCHANGED <<shutdown_requested, extraction_task, process, stdout_ready,
                   pending, weather_data>>
    /\ UNCHANGED <<file_exists, file, main_last_position>>
    /\ UNCHANGED <<initialized, iteration_error, heartbeat_counter>>
    /\ UNCHANGED offPipe

\* await weather_processor.close() raises: the outer except of main()
CloseFails ==
    /\ pc = "close"
    /\ LoopFree
    /\ pc' = "stopped"
    /\ UNCHANGED <<shutdown_requested, extraction_task, process, stdout_ready,
                   pending, weather_data, final_report>>
    /\ UNCHANGED <<file_exists, file, main_last_position>>
    /\ UNCHANGED <<initialized, iteration_error, heartbeat_counter>>
    /\ UNCHANGED offPipe

\* start_extraction begins at the first await of main() after create_task:
\* Popen, poll() is None, and the task enters stdout.readline()
StartExtraction ==
    /\ extraction_task = "created"
    /\ pc \in AwaitPcs
    /\ process' = "running"
    /\ extraction_task' = "in_readline"
    /\ UNCHANGED <<pc, shutdown_requested, stdout_ready, pending, weather_data,
                   final_report>>
    /\ UNCHANGED <<file_exists, file, main_last_position>>
    /\ UNCHANGED <<initialized, iteration_error, heartbeat_counter>>
    /\ UNCHANGED offPipe

\* Popen raises: logged and raised again, the task has failed
StartExtractionFails ==
    /\ extraction_task = "created"
    /\ pc \in AwaitPcs
    /\ extraction_task' = "failed"
    /\ UNCHANGED <<pc, shutdown_requested, process, stdout_ready, pending,
                   weather_data, final_report>>
    /\ UNCHANGED <<file_exists, file, main_last_position>>
    /\ UNCHANGED <<initialized, iteration_error, heartbeat_counter>>
    /\ UNCHANGED offPipe

\* stdout.readline() returns, with a line of the child or at end of file,
\* and the task awaits asyncio.sleep(0.1)
ReadlineReturns ==
    /\ extraction_task = "in_readline"
    /\ stdout_ready \/ process # "running"
    /\ stdout_ready' = FALSE
    /\ extraction_task' = "sleeping"
    /\ UNCHANGED <<pc, shutdown_requested, process, pending, weather_data,
                   final_report>>
    /\ UNCHANGED <<file_exists, file, main_last_position>>
    /\ UNCHANGED <<initialized, iteration_error, heartbeat_counter>>
    /\ UNCHANGED offPipe

\* asyncio.sleep(0.1) returns: poll(), then readline() again, or the end of
\* the task when the child has exited
TaskWakes ==
    /\ extraction_task = "sleeping"
    /\ pc \in AwaitPcs
    /\ extraction_task' =
          CASE process = "running"   -> "in_readline"
            [] process = "exited_ok" -> "done"
            [] OTHER                 -> "failed"
    /\ UNCHANGED <<pc, shutdown_requested, process, stdout_ready, pending,
                   weather_data, final_report>>
    /\ UNCHANGED <<file_exists, file, main_last_position>>
    /\ UNCHANGED <<initialized, iteration_error, heartbeat_counter>>
    /\ UNCHANGED offPipe

\* the child prints a line on its stdout
ChildPrints ==
    /\ process = "running"
    /\ ~stdout_ready
    /\ stdout_ready' = TRUE
    /\ UNCHANGED <<pc, shutdown_requested, extraction_task, process, pending,
                   weather_data, final_report>>
    /\ UNCHANGED <<file_exists, file, main_last_position>>
    /\ UNCHANGED <<initialized, iteration_error, heartbeat_counter>>
    /\ UNCHANGED offPipe

\* the child writes to the log: a whole line, or a line in two pieces
ChildWrites ==
    /\ process = "running"
    /\ \E chunk \in IF file # <<>> /\ Last(file) # NL
                    THEN {<<NL>>} ELSE {<<"a">>, <<"a", NL>>} :
          /\ Len(file) + Len(chunk) <= MaxFile
          /\ file' = file \o chunk
    /\ file_exists' = TRUE
    /\ UNCHANGED <<pc, shutdown_requested, extraction_task, process,
                   stdout_ready, pending, weather_data, final_report>>
    /\ UNCHANGED main_last_position
    /\ UNCHANGED <<initialized, iteration_error, heartbeat_counter>>
    /\ UNCHANGED offPipe

\* the child exits by itself, with return code 0 or not
ChildExits ==
    /\ process = "running"
    /\ process' \in {"exited_ok", "exited_err"}
    /\ UNCHANGED <<pc, shutdown_requested, extraction_task, stdout_ready,
                   pending, weather_data, final_report>>
    /\ UNCHANGED <<file_exists, file, main_last_position>>
    /\ UNCHANGED <<initialized, iteration_error, heartbeat_counter>>
    /\ UNCHANGED offPipe

PipeIdle ==
    /\ pc = "initialize"
    /\ shutdown_requested = FALSE
    /\ extraction_task = "none"
    /\ process = "none"
    /\ stdout_ready = FALSE
    /\ pending = <<>>
    /\ weather_data = <<>>
    /\ final_report = FALSE
    /\ initialized = FALSE
    /\ iteration_error = FALSE
    /\ heartbeat_counter = 0

\* the steps of main()
MainStep ==
    \/ InitializeOk
    \/ InitializeFails
    \/ Iterate
    \/ IterateFails
    \/ ProcessLine
    \/ Sleep
    \/ stop_extraction
    \/ WaitTaskDone
    \/ WaitTaskTimeout
    \/ CloseOk
    \/ CloseFails

\* the steps of the extraction task
TaskStep == StartExtraction \/ StartExtractionFails \/ ReadlineReturns \/ TaskWakes

\* signals and the child process
Environment == handle_shutdown \/ ChildPrints \/ ChildWrites \/ ChildExits

\* the states of the pipeline the specification names
pstate ==
    CASE pc = "initialize" -> "Idle"
      [] pc \in {"loop_top", "process", "sleep"} -> "Extracting+Polling"
      [] pc \in {"wait_task", "close"} -> "Draining"
      [] pc = "stopped" -> "Stopped"

LoadIdle ==
    /\ loader \in Loaders
    /\ pool = FALSE
    /\ store = EmptyStore
    /\ called = FALSE
    /\ batch_data = EmptyBatch
    /\ fault = NoFault
    /\ attempted = {}
    /\ statements = <<>>
    /\ raised = FALSE
    /\ reloaded = FALSE

TailIdle ==
    /\ file_exists = FALSE
    /\ file = <<>>
    /\ last_position = 0
    /\ new_lines = <<>>
    /\ delivered = <<>>
    /\ main_last_position = 0
    /\ main_delivered = <<>>
    /\ read_failed = FALSE

(***************************************************************************)
(* The specifications.                                                     *)
(***************************************************************************)
\* the tailing readers and the producer of the log
InitTail ==
    TailIdle /\ LoadIdle /\ loader = "PostgreSQLLoader" /\ BatchIdle /\ PipeIdle

NextTail ==
    \/ ProducerCreate
    \/ ProducerAppend
    \/ GetNewData_NoFile
    \/ GetNewData_Read
    \/ GetNewData_Error
    \/ MainTail

SpecTail == InitTail /\ [][NextTail]_vars

\* load_batch, of either loader, on batches of several kinds
InitLoad == TailIdle /\ LoadIdle /\ BatchIdle /\ PipeIdle

NextLoad == connect \/ LoadMixedBatch \/ LoadReturn

SpecLoad == InitLoad /\ [][NextLoad]_vars

\* PostgreSQLLoader.load_batch on LapData batches
InitLap ==
    TailIdle /\ LoadIdle /\ loader = "PostgreSQLLoader" /\ BatchIdle /\ PipeIdle

NextLap == connect \/ LoadLapBatch \/ LoadAgain \/ LoadReturn

SpecLap == InitLap /\ [][NextLap]_vars

\* load_batch calls on batches of Session and Driver records, the second and
\* later ones meeting the rows of the earlier ones
InitUpsert == TailIdle /\ LoadIdle /\ BatchIdle /\ PipeIdle

NextUpsert == connect \/ LoadKeyedBatch \/ LoadReturn

SpecUpsert == InitUpsert /\ [][NextUpsert]_vars

\* load_batch calls on batches of one append-only kind
InitAppend == TailIdle /\ LoadIdle /\ BatchIdle /\ PipeIdle

NextAppend == connect \/ LoadAppendBatch \/ LoadReturn

SpecAppend == InitAppend /\ [][NextAppend]_vars

\* F1DataTransformer.process_data_batch on batches of raw lines
InitBatch ==
    TailIdle /\ LoadIdle /\ loader = "PostgreSQLLoader" /\ BatchIdle /\ PipeIdle

NextBatch == ProcessDataBatch \/ TransformReturn

SpecBatch == InitBatch /\ [][NextBatch]_vars

\* the transformer alone, on timing, car and session events
NextEvents == ProcessEventBatch \/ TransformReturn

SpecEvents == InitBatch /\ [][NextEvents]_vars

\* main(): the polling loop, the extraction task, the child and the signals
InitPipe ==
    TailIdle /\ LoadIdle /\ loader = "SupabaseLoader" /\ BatchIdle /\ PipeIdle

NextPipe == MainStep \/ TaskStep \/ Environment

SpecPipe == InitPipe /\ [][NextPipe]_vars

\* the event loop resumes main() whenever it is free again and again (its
\* timers and its database calls complete), and runs the extraction task when
\* it can run; nothing is assumed of the child process or of the signals
SpecPipeFair ==
    InitPipe /\ [][NextPipe]_vars /\ SF_vars(MainStep) /\ WF_vars(TaskStep)

(***************************************************************************)
(* C1: for a log that only grows, the concatenation in call order of       *)
(* everything get_new_data() returned (and of everything the inline tail   *)
(* of main() read) is exactly the file content from byte 0 up to the       *)
(* stored offset: nothing is returned twice, nothing is skipped.           *)
(***************************************************************************)
C1_ConcatIsPrefix ==
    /\ Flatten(delivered) = SubSeq(file, 1, last_position)
    /\ Flatten(main_delivered) = SubSeq(file, 1, main_last_position)

\* several reads interleaved with appends, one of them in the middle of a line
C1_Witness ==
    /\ Len(delivered) >= 2
    /\ Len(main_delivered) >= 2
    /\ last_position = MaxFile
    /\ main_last_position = MaxFile
    /\ \E i \in 1..(Len(delivered) - 1) : Last(delivered[i]) # NL

(***************************************************************************)
(* C2: a call made while the last line is still incomplete does not move   *)
(* the stored offset past the start of that line, and no call returns a    *)
(* fragment of a line whose remainder a later call returns separately.     *)
(***************************************************************************)
C2_NoFragmentDelivered ==
    /\ last_position > 0 => file[last_position] = NL
    /\ \A i \in 1..(Len(delivered) - 1) : Last(delivered[i]) = NL

(***************************************************************************)
(* C3: after any sequence of load_batch calls carrying LapData for one     *)
(* (driver_number, lap_number), every column of the stored row that has    *)
(* ever held a non-null value still holds one, timestamp included.         *)
(***************************************************************************)
C3_NeverBackToNull ==
    [][NonNullCells(store["lap_data"]) \subseteq
          NonNullCells(store'["lap_data"])]_vars

(***************************************************************************)
(* C4: loading the same LapData batch again changes nothing: the store     *)
(* holds exactly one lap_data row for each key of the batch, with the      *)
(* values it had after the first application.                              *)
(***************************************************************************)
C4_OneRowPerKey ==
    (called /\ pool /\ fault = NoFault) =>
        \A i \in 1..Len(batch_data["lap_data"]) :
            Cardinality({j \in 1..Len(store["lap_data"]) :
                SameLap(store["lap_data"][j], batch_data["lap_data"][i])}) = 1

C4_Idempotent ==
    /\ []C4_OneRowPerKey
    /\ [][reloaded' => store'["lap_data"] = store["lap_data"]]_vars

\* a batch of two records of one key, the second a partial update, loaded
\* twice into a table that holds a row of another key
C4_Witness ==
    /\ reloaded
    /\ pool
    /\ Len(batch_data["lap_data"]) = 2
    /\ SameLap(batch_data["lap_data"][1], batch_data["lap_data"][2])
    /\ batch_data["lap_data"][1].lap_time = 2
    /\ batch_data["lap_data"][2].lap_time = NULL
    /\ Len(store["lap_data"]) = 2

(***************************************************************************)
(* C5: at the end of process_data_batch the drivers (sessions) collection  *)
(* holds exactly one record for each driver_number (session_key) seen in   *)
(* the batch, and that record is the last occurrence in input order.       *)
(***************************************************************************)
C5_KeepsLast ==
    (transformed /\ raw_lines # <<>> /\ ~batch_raised) =>
        LET all == for_line_in(raw_lines, 1, StartAcc(<<>>, NULL)).result
            LastOf(items, attr, v) ==
                items[CHOOSE i \in 1..Len(items) :
                         /\ items[i][attr] = v
                         /\ \A j \in (i + 1)..Len(items) : items[j][attr] # v]
            Keeps(kind, attr) ==
                \A v \in {all[kind][i][attr] : i \in 1..Len(all[kind])} :
                    LET kept == {j \in 1..Len(result[kind]) :
                                    result[kind][j][attr] = v}
                    IN  /\ Cardinality(kept) = 1
                        /\ \A j \in kept :
                              result[kind][j] = LastOf(all[kind], attr, v)
        IN  Keeps("drivers", "driver_number") /\ Keeps("sessions", "session_key")

(***************************************************************************)
(* C6: load_batch is atomic: after any call either all the writes of the   *)
(* batch, across every table, are visible in the store, or none is.        *)
(***************************************************************************)
C6_AllOrNothing ==
    [][\/ store' = store
       \/ store' = load_batch(loader, pool, store, batch_data', NoFault).store]_vars

\* the batch without the record (row handlers) or the collection (append
\* handlers) whose statement failed
WithoutFailed(b, f) ==
    IF f = NoFault THEN b
    ELSE IF f[1] \in RowKinds
    THEN [b EXCEPT ![f[1]] =
             SubSeq(@, 1, f[2] - 1) \o SubSeq(@, f[2] + 1, Len(@))]
    ELSE [b EXCEPT ![f[1]] = <<>>]

\* C6 as amended: a call in which no statement fails makes every write of
\* the batch visible; a hard database error in any statement leaves the
\* store as it was before the call; an error raised on the client and caught
\* by a table handler drops the failing statement only, the other writes of
\* the batch being committed.
C6_Amended ==
    [][/\ (fault' # NoFault /\ fault'[3] = "hard") => store' = store
       /\ (fault' = NoFault \/ fault'[3] = "soft") =>
             store' = load_batch(loader, pool, store,
                                 WithoutFailed(batch_data', fault'),
                                 NoFault).store]_vars

\* a soft failure in one table, the write of another table committed
C6_Witness ==
    /\ called
    /\ pool
    /\ fault # NoFault
    /\ fault[3] = "soft"
    /\ fault[1] = "positions"
    /\ store["positions"] = <<>>
    /\ batch_data["weather"] # <<>>
    /\ store["weather"] # <<>>

(***************************************************************************)
(* C7: within one load_batch call a failure while loading one table is     *)
(* caught for that table only: the handler of every other table with a     *)
(* non-empty collection is still invoked and load_batch does not raise.    *)
(***************************************************************************)
C7_FailureIsolated ==
    (called /\ pool) =>
        /\ ~raised
        /\ attempted = NonEmptyKinds(batch_data) \cap HandledKinds(loader)
        /\ loader = "PostgreSQLLoader" => attempted = NonEmptyKinds(batch_data)

\* the positions insert fails hard; tables before and after it are attempted
C7_Witness ==
    /\ called
    /\ pool
    /\ loader = "PostgreSQLLoader"
    /\ fault = <<"positions", 1, "hard">>
    /\ {"sessions", "lap_data", "positions", "weather"} \subseteq attempted

(***************************************************************************)
(* C8: every complete line of the log that maps to an append-only entity   *)
(* is persisted at least once, even when the load attempt of the iteration *)
(* that first read it fails.  The read offset never moves back, so a line  *)
(* below it is never read again: once an iteration is over, every complete *)
(* line below the offset has been persisted.                               *)
(***************************************************************************)
C8_ReadLinesPersisted ==
    pc = "sleep" =>
        \A k \in 1..(LineAt(main_last_position) - 1) :
            \E i \in 1..Len(weather_data) : weather_data[i] = k

(***************************************************************************)
(* C9: a line that fails to parse (json.loads rejects it, or gives a value *)
(* that holds no topic) never raises out of process_data_batch; the result *)
(* is the one the other lines of the batch give, those before it and those *)
(* after it.                                                               *)
(***************************************************************************)
Parses(line) == line.kind \notin {"malformed", "scalar"}

C9_ParseFailureSkipped ==
    (transformed /\ raw_lines # <<>>) =>
        /\ ~batch_raised
        /\ result =
              deduplicated(for_line_in(SelectSeq(raw_lines, Parses), 1,
                                       StartAcc(<<>>, NULL)).result)

\* a malformed line between a DriverList line and a WeatherData line, both
\* of which have given their records
C9_Witness ==
    /\ transformed
    /\ Len(raw_lines) = 3
    /\ raw_lines[1].kind = "object"
    /\ raw_lines[1].topic = "DriverList"
    /\ raw_lines[2].kind = "malformed"
    /\ raw_lines[3].kind = "object"
    /\ raw_lines[3].topic = "WeatherData"
    /\ Len(result["drivers"]) >= 1
    /\ Len(result["weather"]) = 1

(***************************************************************************)
(* C10: once the shutdown flag is set while the pipeline is polling, the   *)
(* pipeline eventually reaches Stopped with the final report emitted; no   *)
(* polling iteration starts after the one in progress; the states are      *)
(* visited in the order Idle, Extracting+Polling, Draining, Stopped.       *)
(***************************************************************************)
Rank(st) ==
    CASE st = "Idle" -> 0
      [] st = "Extracting+Polling" -> 1
      [] st = "Draining" -> 2
      [] st = "Stopped" -> 3

C10_ShutdownCompletes ==
    /\ (shutdown_requested /\ pstate = "Extracting+Polling")
          ~> (pstate = "Stopped" /\ final_report)
    /\ [][Rank(pstate') >= Rank(pstate)]_vars
    /\ [][(shutdown_requested /\ pc = "loop_top") =>
              pc' \notin {"process", "sleep"}]_vars

(***************************************************************************)
(* C11: when the store connection cannot be established at startup, main() *)
(* ends and the extraction task is never created nor the child launched:   *)
(* no state with extraction started follows a failed initialize().         *)
(***************************************************************************)
C11_NoExtractionAfterFailedConnect ==
    (pc # "initialize" /\ ~initialized) =>
        /\ extraction_task = "none"
        /\ process = "none"
        /\ pc = "stopped"

C11_Witness ==
    /\ pc = "stopped"
    /\ ~initialized
    /\ ~final_report

(***************************************************************************)
(* C12: when the extraction cannot be started (Popen raises, or the child  *)
(* exits with an error), the pipeline aborts: once the extraction task has *)
(* failed, main() leaves the polling loop.                                 *)
(***************************************************************************)
C12_FailedExtractionAborts ==
    (extraction_task = "failed") ~> (pstate \in {"Draining", "Stopped"})

HeartbeatLogged ==
    /\ heartbeat_counter = HeartbeatEvery - 1
    /\ heartbeat_counter' = 0

C14_HeartbeatsKeepComing ==
    <>[](pstate = "Extracting+Polling" /\ ~shutdown_requested)
        => []<><<HeartbeatLogged>>_vars

(***************************************************************************)
(* C15: the stored offset of the tailing reader never decreases and never  *)
(* exceeds the length of the file, whatever the sequence of get_new_data() *)
(* calls and appends.                                                      *)
(***************************************************************************)
C15_OffsetMonotonic ==
    /\ [](0 <= last_position /\ last_position <= Len(file))
    /\ [][last_position' >= last_position]_vars

\* the offset has advanced twice and the file has grown past it again
C15_Witness ==
    /\ last_position > 0
    /\ Len(delivered) >= 2
    /\ last_position < Len(file)

(***************************************************************************)
(* C16: when the file does not exist yet, or reading it fails,             *)
(* get_new_data() returns the empty list and leaves the stored offset as   *)
(* it was, so that the next call that succeeds reads from that offset:     *)
(* what has been delivered is always the file up to the stored offset.     *)
(***************************************************************************)
C16_FailedReadKeepsOffset ==
    /\ [](read_failed => new_lines = <<>>)
    /\ [][read_failed' => last_position' = last_position]_vars
    /\ [](Flatten(delivered) = SubSeq(file, 1, last_position))

\* a read has failed after an earlier one succeeded, with data waiting
C16_Witness ==
    /\ read_failed
    /\ file_exists
    /\ 0 < last_position
    /\ last_position < Len(file)

(***************************************************************************)
(* C17: for every kind whose collection in the batch is not empty,         *)
(* load_batch invokes the table handler of that kind, under both loaders:  *)
(* no non-empty collection is skipped.                                     *)
(***************************************************************************)
C17_EveryNonEmptyKindRouted ==
    (called /\ pool) => attempted = NonEmptyKinds(batch_data)

(***************************************************************************)
(* C18: upserting a Session or a Driver leaves exactly one row for its     *)
(* natural key, and every non-key column of that row holds the value the   *)
(* incoming record supplies for it (null included), whatever the row held  *)
(* before.                                                                 *)
(***************************************************************************)
\* the row the loader in use builds from an incoming record
IncomingRow(kind, r) ==
    CASE kind = "sessions" ->
             IF loader = "SupabaseLoader" THEN supabase_session_values(r)
             ELSE session_values(r)
      [] kind = "drivers" ->
             IF loader = "SupabaseLoader" THEN supabase_driver_values(r)
             ELSE driver_values(r)

\* the natural key of a row
NaturalKey(kind, row) ==
    CASE kind = "sessions" ->
             IF loader = "SupabaseLoader" THEN row.key ELSE row.session_key
      [] kind = "drivers" -> row.driver_number

C18_UpsertOverwritesAll ==
    (called /\ pool) =>
        \A kind \in {"sessions", "drivers"} :
            \A i \in 1..Len(batch_data[kind]) :
                LET v    == IncomingRow(kind, batch_data[kind][i])
                    last == \A j \in (i + 1)..Len(batch_data[kind]) :
                               NaturalKey(kind, IncomingRow(kind, batch_data[kind][j]))
                                   # NaturalKey(kind, v)
                    rows == {j \in 1..Len(store[kind]) :
                                NaturalKey(kind, store[kind][j])
                                    = NaturalKey(kind, v)}
                IN  last => /\ Cardinality(rows) = 1
                            /\ \A j \in rows : store[kind][j] = v

(***************************************************************************)
(* C19: for every well-formed line in either wire shape (the list [topic,  *)
(* data, timestamp] or the object with topic, data and timestamp) whose    *)
(* topic is dispatched, process_data_batch emits records of the kind of    *)
(* that topic only, one per sub-structure: one Weather per WeatherData     *)
(* event.                                                                  *)
(***************************************************************************)
\* the well-formed WeatherData events of a batch, in either shape
WeatherEvents(raw) ==
    {i \in 1..Len(raw) :
        /\ raw[i].kind \in {"object", "list"}
        /\ raw[i].topic = "WeatherData"
        /\ raw[i].has_data}

C19_OnePerEventEitherShape ==
    (transformed /\ raw_lines # <<>> /\ ~batch_raised) =>
        /\ Len(result["weather"]) = Cardinality(WeatherEvents(raw_lines))
        /\ (WeatherEvents(raw_lines) = 1..Len(raw_lines)) =>
               \A k \in Kinds \ {"weather"} : result[k] = <<>>

(***************************************************************************)
(* C20: the rainfall of a Weather record is the number 1.0 or 0.0 when the *)
(* feed value is "true" or "false" in any case: it is never emitted as a   *)
(* boolean.                                                                *)
(***************************************************************************)
C20_RainfallNotBoolean ==
    (transformed /\ raw_lines # <<>>) =>
        \A i \in 1..Len(result["weather"]) :
            result["weather"][i].rainfall \notin BOOLEAN

(***************************************************************************)
(* C26: stopping a live extraction process asks it to terminate, waits a   *)
(* bounded grace period and kills it if it has not exited; when shutdown   *)
(* has completed, the extraction process is not running any more.          *)
(***************************************************************************)
C26_NoChildLeftRunning ==
    /\ [][(pc = "loop_top" /\ pc' = "wait_task" /\ process = "running")
              => process' = "killed"]_vars
    /\ [](pstate = "Stopped" => process # "running")

(***************************************************************************)
(* C28: the progress of the polling loop does not depend on the output of  *)
(* the extraction process: the coroutine that watches the child never      *)
(* blocks the event loop, so every pass of the loop that has started comes *)
(* back to the test of the loop, on which the next pass or the shutdown    *)
(* depends.                                                                *)
(***************************************************************************)
C28_PassesKeepRunning ==
    (pc \in {"process", "sleep"}) ~> (pc = "loop_top")

(***************************************************************************)
(* C21: every timestamp that reaches the store is zone-naive, for every    *)
(* kind that has one: no kind is persisted zone-aware.                     *)
(***************************************************************************)
C21_StoredTimestampsNaive ==
    \A kind \in AppendKinds :
        \A i \in 1..Len(store[kind]) : ~store[kind][i].timestamp.tzinfo

(***************************************************************************)
(* C27: an append-only load sends its rows in sub-batches of at most       *)
(* BatchSize rows per statement, and the sub-batches taken in order hold   *)
(* every row of the collection exactly once.                               *)
(***************************************************************************)
\* the rows of the executemany statements of a kind, statement by statement
SentRows(kind) ==
    LET of_kind == SelectSeq(statements, LAMBDA st : st.kind = kind)
    IN  [j \in 1..Len(of_kind) |-> of_kind[j].rows]

C27_SubBatchesCoverOnce ==
    (called /\ pool /\ fault = NoFault) =>
        \A kind \in AppendKinds :
            /\ \A j \in 1..Len(SentRows(kind)) :
                  Len(SentRows(kind)[j]) <= BatchSize
            /\ Flatten(SentRows(kind))
                  = append_values(loader, kind, batch_data[kind])

(***************************************************************************)
(* C29: loading keeps the channel values of a Telemetry record: every      *)
(* non-null value is persisted unchanged, 0 included; only an unknown      *)
(* value is stored as null.                                                *)
(***************************************************************************)
Channels == {"speed", "rpm", "gear", "throttle", "brake", "drs"}

C29_ChannelsPreserved ==
    (called /\ pool /\ fault = NoFault /\ batch_data["telemetry"] # <<>>) =>
        /\ Len(store["telemetry"]) = Len(batch_data["telemetry"])
        /\ \A i \in 1..Len(batch_data["telemetry"]) :
              \A c \in Channels :
                  store["telemetry"][i][c] = batch_data["telemetry"][i][c]


(***************************************************************************)
(* The handlers of the transformer on timing, car and session events.      *)
(***************************************************************************)

\* the entries of the events of one topic in raw_lines, in the order of the
\* batch
EventEntries(topic) ==
    Flatten([i \in 1..Len(raw_lines) |->
                IF raw_lines[i].topic = topic /\ raw_lines[i].has_data
                THEN raw_lines[i].data.items ELSE <<>>])

\* an entry whose key is a driver number and whose value is an object
Keyed(e) == e.is_dict /\ int(e.key) # NULL

\* the TimingData entries with a lap part the handler can read
HasLapPart(e) ==
    /\ Keyed(e)
    /\ e.LastLapTime \notin {Absent, NotDict}
    /\ NotDict \notin {e.Sector1Time, e.BestSpeed}

\* the value a numeric member is to resolve to: unknown when it is absent or
\* does not parse
Resolved(value) == IF value = Absent THEN NULL ELSE int(value)

\* C22: an unparsable numeric value never discards the record: every CarData
\* entry of a driver gives a telemetry record whose channel is None when its
\* text does not parse, and every SessionInfo event whose Key does not parse
\* still gives a session, with session_key None.
C22_UnparsableKeepsRecord ==
    (transformed /\ raw_lines # <<>>) =>
        LET cars == SelectSeq(EventEntries("CarData.z"), Keyed)
        IN  /\ Len(result["telemetry"]) = Len(cars)
            /\ \A i \in 1..Len(cars) :
                  /\ result["telemetry"][i].driver_number = int(cars[i].key)
                  /\ result["telemetry"][i].speed = Resolved(cars[i].Speed)
                  /\ result["telemetry"][i].throttle =
                         Resolved(cars[i].Throttle)
            /\ \A n \in 1..Len(raw_lines) :
                  (/\ raw_lines[n].topic = "SessionInfo"
                   /\ raw_lines[n].data.Key # Absent
                   /\ int(raw_lines[n].data.Key) = NULL) =>
                      \E k \in 1..Len(result["sessions"]) :
                          result["sessions"][k].session_key = NULL

\* C23: a member that is absent resolves to None in the record: a SessionInfo
\* event without Key gives a session whose session_key is None, and a
\* TimingData entry with a lap time and without NumberOfLaps gives a lap
\* record whose lap_number is None.
C23_AbsentBecomesNone ==
    (transformed /\ raw_lines # <<>>) =>
        /\ \A n \in 1..Len(raw_lines) :
              (raw_lines[n].topic = "SessionInfo"
                  /\ raw_lines[n].data.Key = Absent) =>
                  \E k \in 1..Len(result["sessions"]) :
                      result["sessions"][k].session_key = NULL
        /\ \A e \in Range(EventEntries("TimingData")) :
              (HasLapPart(e) /\ e.NumberOfLaps = Absent) =>
                  \E k \in 1..Len(result["lap_data"]) :
                      /\ result["lap_data"][k].driver_number = int(e.key)
                      /\ result["lap_data"][k].lap_number = NULL

\* the batches in which every TimingData event has the entry of one driver
\* and no other event adds lap records
OneDriverTiming ==
    \A n \in 1..Len(raw_lines) :
        /\ raw_lines[n].topic # "TimingAppData"
        /\ raw_lines[n].topic = "TimingData" =>
               Len(raw_lines[n].data.items) = 1

HasPosition(e) == Keyed(e) /\ e.Position # Absent /\ int(e.Position) # NULL

\* C24: for the TimingData entry of one driver the Position fact and the lap
\* record are independent: every entry with a parsable Position gives its
\* Position fact whatever its lap part is, and every entry with a lap time
\* gives its lap record whatever its Position is.
C24_PositionAndLapIndependent ==
    (transformed /\ raw_lines # <<>> /\ OneDriverTiming) =>
        LET with_pos == SelectSeq(EventEntries("TimingData"), HasPosition)
            with_lap == SelectSeq(EventEntries("TimingData"), HasLapPart)
        IN  /\ Len(result["positions"]) = Len(with_pos)
            /\ \A i \in 1..Len(with_pos) :
                  /\ result["positions"][i].driver_number =
                         int(with_pos[i].key)
                  /\ result["positions"][i].position =
                         int(with_pos[i].Position)
            /\ Len(result["lap_data"]) = Len(with_lap)
            /\ \A i \in 1..Len(with_lap) :
                  result["lap_data"][i].driver_number = int(with_lap[i].key)

\* result['lap_data'] after the first n lines of raw_lines
lap_data_after(n) ==
    for_line_in(SubSeq(raw_lines, 1, n), 1,
                StartAcc(<<>>, NULL)).result["lap_data"]

LapKey(lap) == <<lap.driver_number, lap.lap_number>>

\* the TimingAppData event line carries the member for the key of lap
Carries(line, lap, member) ==
    \E i \in 1..Len(line.data.items) :
        \E j \in 1..Len(line.data.items[i].Lines) :
            /\ int(line.data.items[i].key) = lap.driver_number
            /\ int_or_0(line.data.items[i].Lines[j].NumberOfLaps) =
                   lap.lap_number
            /\ line.data.items[i].Lines[j][member] # Absent

\* C25: a TimingAppData event never adds a second lap record for a key that
\* lap_data already has: the records that were there stay where they are,
\* with their key, lap time and timestamp, and change only in the members the
\* event carries for their key; the records it appends have keys that were
\* not there, one record for each.
C25_TimingAppUpdatesInPlace ==
    (transformed /\ raw_lines # <<>>) =>
        /\ result["lap_data"] = lap_data_after(Len(raw_lines))
        /\ \A n \in 1..Len(raw_lines) :
              raw_lines[n].topic = "TimingAppData" =>
                  LET before == lap_data_after(n - 1)
                      after == lap_data_after(n)
                  IN  /\ Len(after) >= Len(before)
                      /\ \A i \in 1..Len(before) :
                            /\ [after[i] EXCEPT !.sector_1_time = NULL,
                                                !.speed_trap = NULL] =
                               [before[i] EXCEPT !.sector_1_time = NULL,
                                                 !.speed_trap = NULL]
                            /\ after[i].sector_1_time # before[i].sector_1_time
                                   => Carries(raw_lines[n], before[i], "Sector1")
                            /\ after[i].speed_trap # before[i].speed_trap
                                   => Carries(raw_lines[n], before[i],
                                              "SpeedTrap")
                      /\ \A i \in (Len(before) + 1)..Len(after) :
                            \A j \in 1..Len(after) :
                                LapKey(after[j]) = LapKey(after[i]) => j = i

\* C25 happens: a TimingData event gave the lap record of (44, 12) and a
\* TimingAppData event later in the batch completed it in place
C25_Witness ==
    /\ transformed
    /\ Len(raw_lines) = 2
    /\ raw_lines[1].topic = "TimingData"
    /\ raw_lines[2].topic = "TimingAppData"
    /\ Len(result["lap_data"]) = 1
    /\ result["lap_data"][1].lap_time = 90
    /\ result["lap_data"][1].sector_1_time = 31
    /\ result["lap_data"][1].speed_trap = 310

\* the entries of a multi-driver event that are well formed
WellFormedTiming(e) ==
    /\ Keyed(e)
    /\ NotDict \notin {e.LastLapTime, e.Sector1Time, e.BestSpeed}
    /\ int_or_0(e.NumberOfLaps) # NULL

\* C30: a malformed entry of a multi-driver event is skipped by itself: every
\* well-formed entry of a DriverList event gives the driver, every well-formed
\* entry of a TimingData event with a parsable Position gives its Position
\* fact, and every well-formed entry of a CarData event gives its record,
\* whatever the other entries of the event are.
C30_MalformedEntrySkippedAlone ==
    (transformed /\ raw_lines # <<>>) =>
        /\ \A e \in Range(EventEntries("DriverList")) :
              Keyed(e) =>
                  \E k \in 1..Len(result["drivers"]) :
                      result["drivers"][k].driver_number = int(e.key)
        /\ \A e \in Range(EventEntries("TimingData")) :
              (WellFormedTiming(e) /\ HasPosition(e)) =>
                  \E k \in 1..Len(result["positions"]) :
                      result["positions"][k].driver_number = int(e.key)
        /\ \A e \in Range(EventEntries("CarData.z")) :
              (Keyed(e) /\ Resolved(e.Speed) # NULL
                        /\ Resolved(e.Throttle) # NULL) =>
                  \E k \in 1..Len(result["telemetry"]) :
                      result["telemetry"][k].driver_number = int(e.key)

====
